---- MODULE Spec2Model ----
(***************************************************************************)
(* Model of misc-tools/download_image.py: URL scheme dispatch, channel     *)
(* resolution, redirect walking, download, checksum comparison and the     *)
(* alias symlink, over a small file system and a nondeterministic network. *)
(*                                                                         *)
(* Strings are sequences of tokens (a token is a piece of text that the    *)
(* program never looks inside: "/", " ", a name, a digest half, ...).      *)
(***************************************************************************)
EXTENDS Integers, Sequences, FiniteSets, TLC

VARIABLES
    args,           \* argparse namespace: path, type, url, docker_image_name, skip, force_redownload
    cwd,            \* os.getcwd()
    fs,             \* file system: full path -> entry (file or symbolic link)
    fs0,            \* the file system as it was when the run started
    net,            \* the network requests issued so far, in order
    server,         \* the HEAD answers the web server has given so far, per URL
    pc,             \* position of the program
    result,         \* how the process ends ("running" until it does)
    url,            \* get_versioned_image_link: its argument
    walk_start,     \* the URL download_file was called with
    versioned_url,  \* download_file: versioned_url
    actual_name,    \* download_file: actual_name
    expected_name,  \* download_file: expected_name
    remote_sha,     \* download_file: remote_sha.text
    local_sha,      \* download_file: local_sha
    wget_status,    \* how the wget child process ended
    list_status,    \* get_channel_url: status of the listing response r (0: the GET raised, -1: not asked)
    downloaded,     \* the branch of line 84 was entered
    verified,       \* the comparison of line 99 was made and let the run go on
    linked          \* os.symlink of line 107 or 126 created a link

vars == <<args, cwd, fs, fs0, net, server, pc, result, url, walk_start,
          versioned_url, actual_name, expected_name, remote_sha, local_sha,
          wget_status, list_status, downloaded, verified, linked>>

---------------------------------------------------------------------------
(* Bounds of the model *)

\* HEAD requests one run may issue (the source has no bound on the recursion)
MaxHops == 3

\* entries the destination and working directories hold before the run
MaxInitEntries == 1

---------------------------------------------------------------------------
(* Strings *)

Max(S) == CHOOSE x \in S : \A y \in S : y <= x

Min(S) == CHOOSE x \in S : \A y \in S : x <= y

Positions(s, tok) == {i \in 1..Len(s) : s[i] = tok}

\* a in b, for Python strings
IsSubstring(a, b) ==
    \E i \in 0..(Len(b) - Len(a)) : \A k \in 1..Len(a) : b[i + k] = a[k]

\* s.split(sep)[0]
SplitFirst(s, sep) ==
    IF Positions(s, sep) = {} THEN s
    ELSE SubSeq(s, 1, Min(Positions(s, sep)) - 1)

\* s.split(sep)[-1]
SplitLast(s, sep) ==
    IF Positions(s, sep) = {} THEN s
    ELSE SubSeq(s, Max(Positions(s, sep)) + 1, Len(s))

---------------------------------------------------------------------------
(* URLs: the three fields of urlparse.urlparse(url) the program reads *)

Url(scheme, netloc, path) == [scheme |-> scheme, netloc |-> netloc, path |-> path]

\* headers.get('Location') of a response without that header
NoUrl == Url("", "", <<>>)

\* url + suffix
UrlPlus(u, suffix) == [u EXCEPT !.path = @ \o suffix]

get_filename(u) == SplitLast(u.path, "/")

---------------------------------------------------------------------------
(* The file system: a function from the full paths that exist to entries.  *)
(* Directories are not entries: the destination and working directories    *)
(* exist throughout.                                                       *)

NoEntry == [kind |-> "none", content |-> "", target |-> <<>>]

File(c) == [kind |-> "file", content |-> c, target |-> <<>>]

Link(t) == [kind |-> "link", content |-> "", target |-> t]

Entry(f, p) == IF p \in DOMAIN f THEN f[p] ELSE NoEntry

\* directory + "/" + name, as the program builds it
Slash(dir, name) == dir \o <<"/">> \o name

\* a name given to the OS, taken relative to the working directory d
AbsPath(d, name) ==
    IF name = <<>> THEN <<>>
    ELSE IF name[1] = "/" THEN name
    ELSE Slash(d, name)

\* the directory part of a full path, with its trailing "/"
DirOf(p) == SubSeq(p, 1, Max(Positions(p, "/")))

RECURSIVE Follow(_, _, _)
\* the path p resolves to after following symbolic links (<<>> on a loop)
Follow(f, p, fuel) ==
    IF Entry(f, p).kind # "link" THEN p
    ELSE IF fuel = 0 THEN <<>>
    ELSE LET t == Entry(f, p).target
         IN  Follow(f, IF t # <<>> /\ t[1] = "/" THEN t ELSE DirOf(p) \o t, fuel - 1)

Resolve(f, p) == Follow(f, p, Cardinality(DOMAIN f))

\* os.path.isfile: follows symbolic links
IsFile(f, p) == Entry(f, Resolve(f, p)).kind = "file"

\* os.path.islink: does not follow
IsLink(f, p) == Entry(f, p).kind = "link"

\* os.unlink
Unlink(f, p) == [q \in (DOMAIN f) \ {p} |-> f[q]]

\* os.symlink(target, p): OSError when p exists or a name is empty
SymlinkFails(f, target, p) == p = <<>> \/ target = <<>> \/ p \in DOMAIN f

Symlink(f, target, p) == (p :> Link(target)) @@ f

\* what a process writing to p (opened for writing, truncated) leaves behind
WriteFile(f, p, c) ==
    LET q == Resolve(f, p)
    IN  IF q = <<>> THEN f ELSE (q :> File(c)) @@ f

\* file contents are named; this is the digest of each
Sha256(c) ==
    CASE c = "c1" -> <<"a", "b">>
      [] c = "c2" -> <<"b", "a">>
      [] c = "old" -> <<"a", "a">>
      [] OTHER -> <<"b", "b">>

\* stdout of `sha256sum p`: empty when p cannot be read
Sha256sum(f, p) ==
    IF IsFile(f, p)
    THEN Sha256(Entry(f, Resolve(f, p)).content) \o <<" ", " ">> \o p \o <<"\n">>
    ELSE <<>>

---------------------------------------------------------------------------
(* Channel resolution *)

\* faulty variant of url_base: a fifth channel in the table
url_base_with_nightly ==
    [release   |-> Url("http", "download.suse.de", <<"/", "CASP20", "/">>),
     staging_a |-> Url("http", "download.suse.de", <<"/", "CASP20:", "/", "Staging:", "/", "A", "/">>),
     staging_b |-> Url("http", "download.suse.de", <<"/", "CASP20:", "/", "Staging:", "/", "B", "/">>),
     devel     |-> Url("http", "download.suse.de", <<"/", "Devel:", "/", "ControllerNode", "/">>),
     nightly   |-> Url("http", "download.suse.de", <<"/", "Nightly", "/">>)]

\* get_channel_url: the table url_base
url_base ==
    [release   |-> Url("http", "download.suse.de", <<"/", "CASP20", "/">>),
     staging_a |-> Url("http", "download.suse.de", <<"/", "CASP20:", "/", "Staging:", "/", "A", "/">>),
     staging_b |-> Url("http", "download.suse.de", <<"/", "CASP20:", "/", "Staging:", "/", "B", "/">>),
     devel     |-> Url("http", "download.suse.de", <<"/", "Devel:", "/", "ControllerNode", "/">>)]

\* get_channel_url: the test of line 62
ChannelKnown(channel) == channel \in DOMAIN url_base

\* get_channel_url: base_url after lines 65-69
BaseUrl(channel, docker_image_name) ==
    UrlPlus(url_base[channel],
            IF docker_image_name # "" THEN <<"images_container_derived">> ELSE <<"images">>)

\* re.search('.*KVM.*x86_64-.*\.qcow2', data).group(0), <<>> when there is no match
MatchKvm(data) ==
    LET ends == {k \in Positions(data, ".qcow2") :
                    \E i \in Positions(data, "KVM") : \E j \in Positions(data, "x86_64-") :
                        i < j /\ j < k}
    IN  IF ends = {} THEN <<>> ELSE SubSeq(data, 1, Max(ends))

\* re.search('<name>.*x86_64-.*\.tar\.xz', data).group(0), <<>> when there is no match
MatchDocker(name, data) ==
    LET ok(i, k) == \E j \in Positions(data, "x86_64-") : i < j /\ j < k
        starts == {i \in Positions(data, name) :
                      \E k \in Positions(data, ".tar.xz") : ok(i, k)}
    IN  IF starts = {} THEN <<>>
        ELSE LET i == Min(starts)
             IN  SubSeq(data, i, Max({k \in Positions(data, ".tar.xz") : ok(i, k)}))

\* ImageFinder.handle_data over every text segment of the page: self.images
FeedImages(docker_image_name, body) ==
    LET m(data) == IF docker_image_name # "" THEN MatchDocker(docker_image_name, data)
                   ELSE MatchKvm(data)
    IN  {m(body[n]) : n \in {n \in 1..Len(body) : m(body[n]) # <<>>}}

\* get_channel_url: the string of lines 74-77
ChannelUrl(base_url, image) == UrlPlus(base_url, <<"/">> \o image)

---------------------------------------------------------------------------
(* Redirect walking *)

\* faulty variant of IsRedirect: 301 is not followed
IsRedirect_302_only(status_code) == status_code = 302

\* get_versioned_image_link: the test of line 37
IsRedirect(status_code) == status_code = 302 \/ status_code = 301

---------------------------------------------------------------------------
(* Fetch and verify *)

\* download_file: the test of line 84
NeedsDownload(f, d, name, force_redownload) ==
    ~IsFile(f, AbsPath(d, name)) \/ force_redownload

\* faulty variant of ShaMatches: the whole sha256sum output is looked for
ShaMatches_whole_output(local, remote) == IsSubstring(local, remote)

\* download_file: the test of line 99, negated
ShaMatches(local, remote) == IsSubstring(SplitFirst(local, " "), remote)

\* download_file: the name of the alias link
AliasPath(path, type, expected) == Slash(path, <<type, "-">> \o expected)

\* faulty variant of AliasStep: the old link is not removed first
AliasStep_no_unlink(f, path, type, expected, actual) ==
    IF expected = actual THEN [err |-> FALSE, fs |-> f]
    ELSE LET p == AliasPath(path, type, expected)
         IN  IF SymlinkFails(f, actual, p) THEN [err |-> TRUE, fs |-> f]
             ELSE [err |-> FALSE, fs |-> Symlink(f, actual, p)]

\* download_file, lines 104-107: [err, fs] after the alias step
AliasStep(f, path, type, expected, actual) ==
    IF expected = actual THEN [err |-> FALSE, fs |-> f]
    ELSE LET p == AliasPath(path, type, expected)
             g == IF IsLink(f, p) THEN Unlink(f, p) ELSE f
         IN  IF SymlinkFails(g, actual, p) THEN [err |-> TRUE, fs |-> g]
             ELSE [err |-> FALSE, fs |-> Symlink(g, actual, p)]

\* faulty variant of LocalStep: the old link is not removed first
LocalStep_no_unlink(f, d, u) ==
    LET expected == get_filename(u)
        path == u.path
    IN  IF Slash(d, expected) = path THEN [err |-> FALSE, fs |-> f]
        ELSE LET p == AbsPath(d, expected)
             IN  IF SymlinkFails(f, path, p) THEN [err |-> TRUE, fs |-> f]
                 ELSE [err |-> FALSE, fs |-> Symlink(f, path, p)]

\* use_local_file, lines 115-126: [err, fs] after it
LocalStep(f, d, u) ==
    LET expected == get_filename(u)
        path == u.path
    IN  IF Slash(d, expected) = path THEN [err |-> FALSE, fs |-> f]
        ELSE LET p == AbsPath(d, expected)
                 g == IF IsLink(f, p) THEN Unlink(f, p) ELSE f
             IN  IF SymlinkFails(g, path, p) THEN [err |-> TRUE, fs |-> g]
                 ELSE [err |-> FALSE, fs |-> Symlink(g, path, p)]

\* faulty variant of Dispatch: --skip is looked at after the scheme
Dispatch_skip_last(a) ==
    IF a.url.scheme \in {"http", "https"} THEN "use_remote_file"
    ELSE IF a.url.scheme = "file" THEN "use_local_file"
    ELSE IF a.url.scheme = "channel" THEN "use_channel_file"
    ELSE IF a.skip THEN "skip"
    ELSE "unknown"

\* __main__, lines 149-165: the branch taken
Dispatch(a) ==
    IF a.skip THEN "skip"
    ELSE IF a.url.scheme \in {"http", "https"} THEN "use_remote_file"
    ELSE IF a.url.scheme = "file" THEN "use_local_file"
    ELSE IF a.url.scheme = "channel" THEN "use_channel_file"
    ELSE "unknown"

---------------------------------------------------------------------------
(* The inputs and the environment *)

Dirs == {<<"/", "d">>, <<"/", "e">>}

HttpUrls ==
    {Url("http", "h", <<"/", "l">>),
     Url("http", "h", <<"/", "v">>),
     Url("https", "h", <<"/", "p", "/", "w">>)}

FileUrls ==
    {Url("file", "", <<"/", "d", "/", "l">>),
     Url("file", "", <<"/", "d", "/">>)}

ChannelUrls ==
    {Url("channel", c, <<>>) : c \in {"release", "staging_a", "staging_b", "devel", "nightly"}}

ArgUrls == HttpUrls \cup FileUrls \cup ChannelUrls \cup {Url("ftp", "h", <<"/", "l">>)}

Args ==
    [path : Dirs, type : {"t"}, url : ArgUrls, docker_image_name : {"", "sles"},
     skip : BOOLEAN, force_redownload : BOOLEAN]

\* what the two directories may hold before the run: <<full path, entry>>
InitEntries ==
    {<< <<"/", "d", "/", "v">>, File("old") >>,
     << <<"/", "e", "/", "v">>, File("old") >>,
     << <<"/", "d", "/", "t", "-", "l">>, Link(<<"v">>) >>,
     << <<"/", "d", "/", "t", "-", "l">>, Link(<<"w">>) >>,
     << <<"/", "d", "/", "t", "-", "l">>, File("old") >>,
     << <<"/", "e", "/", "l">>, Link(<<"/", "x">>) >>,
     << <<"/", "e", "/", "l">>, File("old") >>,
     << <<"/", "d", "/", "l">>, File("old") >>}

InitFs ==
    {[p \in {e[1] : e \in S} |-> (CHOOSE e \in S : e[1] = p)[2]] :
        S \in {S \in SUBSET InitEntries :
                  /\ Cardinality(S) <= MaxInitEntries
                  /\ \A a, b \in S : a[1] = b[1] => a = b}}

\* where the server's redirects point (NoUrl: no Location header)
RedirectTargets ==
    {Url("http", "h", <<"/", "v">>), Url("https", "h", <<"/", "p", "/", "w">>), NoUrl}

\* answers to a HEAD request; status 0 is a request that raised (no response)
HeadAnswers ==
    {[status |-> st, location |-> NoUrl] : st \in {200, 404, 0}}
    \cup {[status |-> st, location |-> l] : st \in {301, 302}, l \in RedirectTargets}

\* the text segments of directory-listing pages
NotFoundBody == << <<"Not", "Found">> >>

KvmBody ==
    << <<"x", "KVM", "x86_64-", "1", ".qcow2", "x">>, <<"x">>,
       <<"KVM", "x86_64-", "2", ".qcow2">> >>

StaleBody == << <<"KVM", "x86_64-", "0", ".qcow2">> >>

DockerBody == << <<"x", "sles", "x86_64-", "1", ".tar.xz", "x">> >>

\* answers to the GET of the listing; status 0 is a request that raised
ListingAnswers ==
    {[status |-> 0, body |-> <<>>]}
    \cup {[status |-> 200, body |-> b] : b \in {KvmBody, DockerBody, NotFoundBody}}
    \cup {[status |-> 404, body |-> b] : b \in {NotFoundBody, StaleBody}}

\* bodies of <url>.sha256 (<<>> stands for a request that raised)
ShaAnswers(name) ==
    {<<>>, <<"Not", "Found">>}
    \cup {Sha256(c) \o <<" ", " ">> \o name \o <<"\n">> : c \in {"c1", "c2"}}

\* how wget ends: exit status, whether the output file was opened, what it holds
WgetOutcomes ==
    {[status |-> "ok", written |-> TRUE, content |-> "c1"],
     [status |-> "ok", written |-> TRUE, content |-> "c2"],
     [status |-> "failed", written |-> TRUE, content |-> "partial"],
     [status |-> "failed", written |-> FALSE, content |-> ""]}

Request(method, u) == [method |-> method, url |-> u]

Heads == SelectSeq(net, LAMBDA r : r.method = "HEAD")

---------------------------------------------------------------------------
(* The program *)

Init ==
    /\ args \in Args
    /\ cwd \in Dirs
    /\ fs \in InitFs
    /\ fs0 = fs
    /\ net = <<>>
    /\ server = <<>>
    /\ pc = "main"
    /\ result = "running"
    /\ url = NoUrl
    /\ walk_start = NoUrl
    /\ versioned_url = NoUrl
    /\ actual_name = <<>>
    /\ expected_name = <<>>
    /\ remote_sha = <<>>
    /\ local_sha = <<>>
    /\ wget_status = "unset"
    /\ list_status = -1
    /\ downloaded = FALSE
    /\ verified = FALSE
    /\ linked = FALSE

\* the process ends with `how`
Exit(how) == pc' = "done" /\ result' = how

\* __main__, lines 147-165, with the first lines of the function it calls
Main ==
    /\ pc = "main"
    /\ LET branch == Dispatch(args)
       IN  CASE branch = "skip" ->
                  /\ Exit("exit0")
                  /\ UNCHANGED <<url, walk_start, expected_name>>
             [] branch = "use_remote_file" ->
                  /\ expected_name' = get_filename(args.url)
                  /\ url' = args.url
                  /\ walk_start' = args.url
                  /\ pc' = "get_versioned_image_link"
                  /\ UNCHANGED result
             [] branch = "use_local_file" ->
                  /\ pc' = "use_local_file"
                  /\ UNCHANGED <<result, url, walk_start, expected_name>>
             [] branch = "use_channel_file" ->
                  /\ pc' = "get_channel_url"
                  /\ UNCHANGED <<result, url, walk_start, expected_name>>
             [] OTHER ->
                  /\ Exit("exit1")
                  /\ UNCHANGED <<url, walk_start, expected_name>>
    /\ UNCHANGED <<args, cwd, fs, fs0, net, server, versioned_url, actual_name,
                   remote_sha, local_sha, wget_status, list_status, downloaded,
                   verified, linked>>

\* get_channel_url, lines 51-63
GetChannelUrl ==
    /\ pc = "get_channel_url"
    /\ IF ChannelKnown(args.url.netloc)
       THEN pc' = "requests_get" /\ UNCHANGED result
       ELSE Exit("UnknownChannel")
    /\ UNCHANGED <<args, cwd, fs, fs0, net, server, url, walk_start, versioned_url,
                   actual_name, expected_name, remote_sha, local_sha, wget_status,
                   list_status, downloaded, verified, linked>>

\* get_channel_url, lines 65-77, and use_channel_file, lines 132-133
FetchListing ==
    /\ pc = "requests_get"
    /\ LET base_url == BaseUrl(args.url.netloc, args.docker_image_name)
       IN  /\ net' = Append(net, Request("GET", base_url))
           /\ \E r \in ListingAnswers :
                IF r.status = 0
                THEN /\ Exit("FetchError")
                     /\ list_status' = r.status
                     /\ UNCHANGED <<url, walk_start, expected_name>>
                ELSE /\ list_status' = r.status
                     /\ LET images == FeedImages(args.docker_image_name, r.body)
                        IN  IF images = {}
                            THEN /\ Exit("NoImageFound")
                                 /\ UNCHANGED <<url, walk_start, expected_name>>
                            ELSE /\ \E image \in images :
                                       /\ url' = ChannelUrl(base_url, image)
                                       /\ walk_start' = ChannelUrl(base_url, image)
                                 /\ expected_name' = <<args.url.netloc>>
                                 /\ pc' = "get_versioned_image_link"
                                 /\ UNCHANGED result
    /\ UNCHANGED <<args, cwd, fs, fs0, server, versioned_url, actual_name,
                   remote_sha, local_sha, wget_status, downloaded, verified, linked>>

\* get_versioned_image_link, lines 34-42, and download_file, lines 81-82
GetVersionedImageLink ==
    /\ pc = "get_versioned_image_link"
    /\ IF url = NoUrl
       THEN /\ Exit("MissingSchema")
            /\ UNCHANGED <<net, server, url, versioned_url, actual_name>>
       ELSE /\ Len(Heads) < MaxHops
            /\ net' = Append(net, Request("HEAD", url))
            /\ \E image \in (IF url \in DOMAIN server THEN {server[url]} ELSE HeadAnswers) :
                 /\ server' = (url :> image) @@ server
                 /\ IF image.status = 0
                    THEN /\ Exit("FetchError")
                         /\ UNCHANGED <<url, versioned_url, actual_name>>
                    ELSE IF IsRedirect(image.status)
                    THEN /\ url' = image.location
                         /\ UNCHANGED <<pc, result, versioned_url, actual_name>>
                    ELSE IF image.status = 200
                    THEN /\ versioned_url' = url
                         /\ actual_name' = get_filename(url)
                         /\ pc' = "isfile"
                         /\ UNCHANGED <<result, url>>
                    ELSE /\ Exit("UnresolvableLocation")
                         /\ UNCHANGED <<url, versioned_url, actual_name>>
    /\ UNCHANGED <<args, cwd, fs, fs0, walk_start, expected_name, remote_sha,
                   local_sha, wget_status, list_status, downloaded, verified, linked>>

\* download_file, line 84
CheckExisting ==
    /\ pc = "isfile"
    /\ downloaded' = NeedsDownload(fs, cwd, actual_name, args.force_redownload)
    /\ pc' = IF downloaded' THEN "remote_sha" ELSE "alias"
    /\ UNCHANGED <<args, cwd, fs, fs0, net, server, result, url, walk_start,
                   versioned_url, actual_name, expected_name, remote_sha, local_sha,
                   wget_status, list_status, verified, linked>>

\* download_file, line 88
GetRemoteSha ==
    /\ pc = "remote_sha"
    /\ net' = Append(net, Request("GET", UrlPlus(versioned_url, <<".sha256">>)))
    /\ \E text \in ShaAnswers(actual_name) :
         IF text = <<>>
         THEN Exit("FetchError") /\ UNCHANGED remote_sha
         ELSE remote_sha' = text /\ pc' = "wget" /\ UNCHANGED result
    /\ UNCHANGED <<args, cwd, fs, fs0, server, url, walk_start, versioned_url,
                   actual_name, expected_name, local_sha, wget_status, list_status,
                   downloaded, verified, linked>>

\* download_file, lines 90-93: the exit status of os.system is not looked at
Wget ==
    /\ pc = "wget"
    /\ \E o \in WgetOutcomes :
         /\ wget_status' = o.status
         /\ IF o.written
            THEN /\ fs' = WriteFile(fs, Slash(args.path, actual_name), o.content)
                 /\ net' = Append(net, Request("GET", versioned_url))
            ELSE UNCHANGED <<fs, net>>
    /\ pc' = "sha256sum"
    /\ UNCHANGED <<args, cwd, fs0, server, result, url, walk_start, versioned_url,
                   actual_name, expected_name, remote_sha, local_sha, list_status,
                   downloaded, verified, linked>>

\* download_file, lines 94-97
Sha256sumStep ==
    /\ pc = "sha256sum"
    /\ local_sha' = Sha256sum(fs, Slash(args.path, actual_name))
    /\ pc' = "compare"
    /\ UNCHANGED <<args, cwd, fs, fs0, net, server, result, url, walk_start,
                   versioned_url, actual_name, expected_name, remote_sha,
                   wget_status, list_status, downloaded, verified, linked>>

\* download_file, lines 99-102
Compare ==
    /\ pc = "compare"
    /\ IF ShaMatches(local_sha, remote_sha)
       THEN verified' = TRUE /\ pc' = "alias" /\ UNCHANGED result
       ELSE Exit("CorruptedDownload") /\ UNCHANGED verified
    /\ UNCHANGED <<args, cwd, fs, fs0, net, server, url, walk_start, versioned_url,
                   actual_name, expected_name, remote_sha, local_sha, wget_status,
                   list_status, downloaded, linked>>

\* download_file, lines 104-107
Alias ==
    /\ pc = "alias"
    /\ LET r == AliasStep(fs, args.path, args.type, expected_name, actual_name)
       IN  /\ fs' = r.fs
           /\ linked' = (~r.err /\ expected_name # actual_name)
           /\ Exit(IF r.err THEN "OSError" ELSE "ok")
    /\ UNCHANGED <<args, cwd, fs0, net, server, url, walk_start, versioned_url,
                   actual_name, expected_name, remote_sha, local_sha, wget_status,
                   list_status, downloaded, verified>>

\* use_local_file, lines 114-126
UseLocalFile ==
    /\ pc = "use_local_file"
    /\ LET r == LocalStep(fs, cwd, args.url)
       IN  /\ fs' = r.fs
           /\ linked' = (~r.err /\ r.fs # fs)
           /\ Exit(IF r.err THEN "OSError" ELSE "ok")
    /\ UNCHANGED <<args, cwd, fs0, net, server, url, walk_start, versioned_url,
                   actual_name, expected_name, remote_sha, local_sha, wget_status,
                   list_status, downloaded, verified>>

Next ==
    \/ Main
    \/ GetChannelUrl
    \/ FetchListing
    \/ GetVersionedImageLink
    \/ CheckExisting
    \/ GetRemoteSha
    \/ Wget
    \/ Sha256sumStep
    \/ Compare
    \/ Alias
    \/ UseLocalFile

Spec == Init /\ [][Next]_vars

---------------------------------------------------------------------------
(* Properties *)

Remote == args.url.scheme \in {"http", "https", "channel"}

\* full path of the alias link of this run, and of the file it is to name
TheAlias == AliasPath(args.path, args.type, expected_name)

TheFile == Slash(args.path, actual_name)

\* the comparison of line 99 has been made in this run
Compared == downloaded /\ wget_status # "unset" /\ pc \in {"alias", "done"}

Whitespace == {" ", "\n", "\t"}

\* the first whitespace-delimited token of s (<<>> when s has none)
FirstToken(s) ==
    LET word == {i \in 1..Len(s) : s[i] \notin Whitespace}
    IN  IF word = {} THEN <<>>
        ELSE LET b == Min(word)
                 stop == {i \in (b + 1)..Len(s) : s[i] \in Whitespace}
             IN  SubSeq(s, b, IF stop = {} THEN Len(s) ELSE Min(stop) - 1)

Last(s) == s[Len(s)]

\* the URLs of the HEAD requests issued so far, in order
HeadUrls == [i \in 1..Len(Heads) |-> Heads[i].url]

RECURSIVE Chain(_, _)
\* the URLs a client following the server's redirects from u asks for, in order
Chain(u, fuel) ==
    IF fuel = 0 \/ u \notin DOMAIN server THEN <<>>
    ELSE IF server[u].status \in {301, 302} THEN <<u>> \o Chain(server[u].location, fuel - 1)
    ELSE <<u>>

\* C1: once a run of the remote path has created the alias link, the link
\* resolves to the file <path>/<actual_name>, and that file either passed the
\* checksum comparison in this run or was in the destination directory before
\* the run with force-redownload unset.
C1_LinkTargetVerifiedOrPreexisting ==
    (Remote /\ linked) =>
        /\ Resolve(fs, TheAlias) = TheFile
        /\ IsFile(fs, TheFile)
        /\ verified \/ (IsFile(fs0, TheFile) /\ ~args.force_redownload)

\* C2: when the download branch is taken: if the first whitespace-delimited
\* token of the local digest output is not in the remote digest text the run
\* fails with CorruptedDownload and the alias link is as it was before the run;
\* if it is, the verification passes.
C2_MismatchFailsAndKeepsLink ==
    Compared =>
        IF IsSubstring(FirstToken(local_sha), remote_sha)
        THEN verified /\ result # "CorruptedDownload"
        ELSE /\ result = "CorruptedDownload"
             /\ ~verified
             /\ ~linked
             /\ Entry(fs, TheAlias) = Entry(fs0, TheAlias)

C2_Witness ==
    /\ Compared
    /\ result = "CorruptedDownload"
    /\ ~IsSubstring(FirstToken(local_sha), remote_sha)
    /\ IsLink(fs0, TheAlias)
    /\ wget_status = "ok"

\* C3: the digest fetch, download and comparison are made if and only if
\* force-redownload is set or <path>/<actual_name> does not exist.
C3_DownloadIffMissingInDestination ==
    /\ pc = "remote_sha" => (args.force_redownload \/ ~IsFile(fs, TheFile))
    /\ (pc = "alias" /\ ~downloaded) => (~args.force_redownload /\ IsFile(fs, TheFile))

\* C4: over a chain of redirects (301 or 302) that ends in a 200 the walker
\* returns the last URL of the chain after one HEAD request per URL of the
\* chain, in order; over a chain that ends in a status other than 200, 301 and
\* 302 it fails with UnresolvableLocation and returns no URL. (While the chain
\* goes on, the walker goes on: its requests are the chain so far.)
C4_RedirectWalk ==
    LET c == Chain(walk_start, MaxHops)
        last == server[Last(c)]
    IN  c # <<>> =>
          /\ HeadUrls = SubSeq(c, 1, Len(HeadUrls))
          /\ last.status = 200 =>
                /\ versioned_url = Last(c)
                /\ HeadUrls = c
                /\ pc # "get_versioned_image_link"
                /\ result \notin {"UnresolvableLocation", "MissingSchema"}
          /\ last.status \in {301, 302} =>
                /\ versioned_url = NoUrl
                /\ result \in {"running", "MissingSchema"}
                /\ result = "running" =>
                      /\ pc = "get_versioned_image_link"
                      /\ url = IF Len(HeadUrls) < Len(c) THEN c[Len(HeadUrls) + 1]
                               ELSE last.location
                /\ result = "MissingSchema" => (last.location = NoUrl /\ HeadUrls = c)
          /\ last.status \notin {200, 301, 302, 0} =>
                /\ result = "UnresolvableLocation"
                /\ versioned_url = NoUrl
                /\ HeadUrls = c

C4_Witness ==
    LET c == Chain(walk_start, MaxHops)
    IN  /\ Len(c) = 3
        /\ server[c[1]].status = 301
        /\ server[c[2]].status = 302
        /\ server[c[3]].status = 200
        /\ versioned_url = c[3]
        /\ pc = "isfile"

\* C5: for a channel name outside the four of the table, with or without a
\* docker-image-name, the run fails with UnknownChannel, and no request is
\* issued and no file or link is touched.
C5_UnknownChannelNoFetch ==
    ( /\ ~args.skip
      /\ args.url.scheme = "channel"
      /\ args.url.netloc \notin {"release", "staging_a", "staging_b", "devel"} ) =>
        /\ net = <<>>
        /\ fs = fs0
        /\ result \in {"running", "UnknownChannel"}
        /\ pc \notin {"main", "get_channel_url"} => (pc = "done" /\ result = "UnknownChannel")

C5_Witness ==
    /\ result = "UnknownChannel"
    /\ args.docker_image_name # ""
    /\ pc = "done"

\* C6: with --skip the program exits with code 0, issues no request and
\* changes nothing on disk, whatever the url and the other arguments are.
C6_SkipDoesNothing ==
    args.skip =>
        /\ net = <<>>
        /\ fs = fs0
        /\ result \in {"running", "exit0"}
        /\ pc # "main" => (pc = "done" /\ result = "exit0")

C6_Witness ==
    /\ args.skip
    /\ result = "exit0"
    /\ args.url.scheme = "ftp"
    /\ args.force_redownload
    /\ fs # <<>>

\* C7: when the download fails in transport the run ends with DownloadFailed
\* there: no checksum is computed or compared and the alias link is not made
\* or replaced.
C7_TransportFailureIsFatal ==
    wget_status = "failed" =>
        /\ pc = "done"
        /\ result = "DownloadFailed"
        /\ local_sha = <<>>
        /\ ~verified
        /\ ~linked
        /\ Entry(fs, TheAlias) = Entry(fs0, TheAlias)

\* C8: when the GET of the listing page gets a non-success response or raises,
\* channel resolution fails with FetchError: the body is not scanned, and the
\* outcome is neither NoImageFound nor a resolved URL.
C8_ListingFailureIsFetchError ==
    list_status \notin {-1, 200} =>
        /\ pc = "done"
        /\ result = "FetchError"
        /\ walk_start = NoUrl

\* C9: the alias step replaces an existing symbolic link of the alias name by
\* a link to actual_name without error and touches nothing else; when the link
\* already pointed at actual_name the directory is left as it was.
C9_AliasStepIdempotent ==
    [][ ( /\ pc = "alias"
          /\ expected_name # actual_name
          /\ IsLink(fs, TheAlias) ) =>
            /\ result' = "ok"
            /\ DOMAIN fs' = DOMAIN fs
            /\ fs'[TheAlias] = Link(actual_name)
            /\ \A q \in (DOMAIN fs) \ {TheAlias} : fs'[q] = fs[q]
            /\ fs[TheAlias] = Link(actual_name) => fs' = fs ]_vars

C9_Witness ==
    /\ Remote
    /\ pc = "done"
    /\ result = "ok"
    /\ linked
    /\ expected_name # actual_name
    /\ Entry(fs0, TheAlias) = Link(actual_name)
    /\ fs = fs0

\* C10, as stated, for a URL whose last segment N is not empty: from a working
\* directory D with D/N different from P the run ends with a symbolic link N in
\* D that points at P; with D/N equal to P nothing is created or removed; no
\* request, no checksum verification.
C10_LocalAliasAlwaysCreated ==
    ( /\ ~args.skip /\ args.url.scheme = "file" /\ pc = "done"
      /\ get_filename(args.url) # <<>> ) =>
        /\ net = <<>>
        /\ ~downloaded /\ ~verified
        /\ IF Slash(cwd, get_filename(args.url)) = args.url.path
           THEN fs = fs0
           ELSE Entry(fs, Slash(cwd, get_filename(args.url))) = Link(args.url.path)

\* C10 (amended): with D/N equal to P nothing is created or removed; otherwise,
\* when D holds no entry named N that is not a symbolic link (and N is not
\* empty), the run ends with the link N in D pointing at P, a prior link of
\* that name replaced and nothing else changed; when D holds such an entry (or
\* N is empty) os.symlink raises OSError and nothing is created or removed. In
\* every case no request is issued and no checksum is verified.
C10_LocalAlias ==
    (~args.skip /\ args.url.scheme = "file" /\ pc = "done") =>
        LET N == get_filename(args.url)
            P == args.url.path
        IN  /\ net = <<>>
            /\ ~downloaded /\ ~verified
            /\ IF Slash(cwd, N) = P
               THEN fs = fs0 /\ result = "ok"
               ELSE IF N # <<>> /\ Entry(fs0, Slash(cwd, N)).kind # "file"
               THEN fs = (Slash(cwd, N) :> Link(P)) @@ fs0 /\ result = "ok"
               ELSE fs = fs0 /\ result = "OSError"

C10_Witness ==
    /\ ~args.skip /\ args.url.scheme = "file" /\ pc = "done"
    /\ result = "ok"
    /\ IsLink(fs0, Slash(cwd, get_filename(args.url)))
    /\ Entry(fs, Slash(cwd, get_filename(args.url))) = Link(args.url.path)
    /\ fs # fs0

====
